---- MODULE Spec2Model ----
(***************************************************************************)
(* Fused sparse Adagrad update with SparseLengthsSum gradient (CUDA):      *)
(* caffe2/sgd/adagrad_fused_op_gpu.cu.                                     *)
(*                                                                         *)
(* The host side of an operator call (RunOnDevice and the DoRunWithType    *)
(* chain) is one action; it either throws, returns early, or enqueues the  *)
(* offset scan and one kernel on the CUDA stream.  The stream runs its     *)
(* entries in order.  A running kernel is a set of lanes (threads) that    *)
(* take their memory accesses one step at a time, in any interleaving.     *)
(*                                                                         *)
(* Numbers: float values are modelled by integers; sqrtf is the integer    *)
(* square root and '/' is division truncating towards zero.  Rounding is   *)
(* not modelled.  Arrays are 0-based in the code; TLA+ sequences are       *)
(* 1-based, so At(s, k) reads the code's s[k].                             *)
(***************************************************************************)
EXTENDS Integers, Sequences, FiniteSets, TLC

\* ------------------------------------------------------------------ bounds
\* Rows of the embedding table (N of the data model).
NumRows == 2
\* Largest number of segments of a call.
MaxSegs == 2
\* Largest number of members (entries of the index array) of a call.
MaxM == 2

\* -------------------------------------------------------- program constants
SEGREDUCE_MINBLOCKS == 16

\* ------------------------------------------------------------------ helpers
At(s, k) == s[k + 1]

Min(a, b) == IF a <= b THEN a ELSE b

\* sqrtf on the integer model: the floor of the square root.
Sqrt(n) == CHOOSE r \in 0..n : r * r <= n /\ (r + 1) * (r + 1) > n

\* '/' on the integer model: truncation towards zero, divisor > 0.
Quot(a, b) == IF a >= 0 THEN a \div b ELSE -((-a) \div b)

\* All sequences over S of length n, and of length at most n.
SeqsOfLen(S, n) == [1..n -> S]
SeqsUpTo(S, n) == UNION {SeqsOfLen(S, k) : k \in 0..n}

RECURSIVE SumSeq(_)
SumSeq(s) == IF s = <<>> THEN 0 ELSE Head(s) + SumSeq(Tail(s))

\* ------------------------------------------------------------- the operators
Ops == {"Sum", "WeightedSum", "RowWiseSum", "RowWiseWeightedSum"}
IsWeighted(o) == o \in {"WeightedSum", "RowWiseWeightedSum"}
IsRowWise(o) == o \in {"RowWiseSum", "RowWiseWeightedSum"}

VARIABLES
  op,            \* which of the four operators is called
  post,          \* embedding dimension D (segmentGradsInput.size_from_dim(1))
  maxThreads,    \* device property maxThreadsPerBlock
  shape,         \* shapes of the input tensors the host checks
  lengths,       \* Input(LENGTHS)
  indices,       \* Input(INDICES)
  grad,          \* Input(GRAD): grad[g][e]
  weights,       \* Input(AUX_PARAM)
  hyper,         \* [LR, epsilon, weight_decay, decay (<<>> when absent)]
  param,         \* parameter table, rows 0..NumRows-1; row NumRows is the
                 \* memory behind the table
  mom,           \* accumulator table (param_mom), same layout
  wgrad,         \* Output(AUX_GRAD): a sequence of {} (not written) or {v}
  hostpc,        \* "new" (not constructed yet), "rejected" (constructor
                 \* threw), "start", "ok" (returned true), "error" (enforce
                 \* threw)
  stream,        \* CUDA stream: the device work enqueued and not yet
                 \* started or, at its head, not yet finished: records
                 \* [work, left], left the offsets a scan has still to write
  offsets,       \* inclusive_scan_length_buffer_ (prefix_sum_length_data)
  kernel,        \* [status, cfg]: the kernel launch
  blocks,        \* per block (execution unit): entry state and shared memory
  lanes,         \* per lane: program position and registers
  touched,       \* ghost: the (block, line, element) pairs updated so far
  ghost          \* ghost flags: oob (an access behind the tables), dup
                 \* (a pair updated twice)

vars == <<op, post, maxThreads, shape, lengths, indices, grad, weights, hyper,
          param, mom, wgrad, hostpc, stream, offsets, kernel, blocks, lanes,
          touched, ghost>>

inputs == <<op, post, maxThreads, shape, lengths, indices, grad, weights,
            hyper>>

S == Len(lengths)
M == Len(indices)

\* ----------------------------------------------------------- initial tables
\* Rows of 32 and more elements hold one even value per 32 elements, so that
\* the divisions by post of the row-wise kernels are exact.
Param0(d) ==
  [r \in 0..NumRows |->
     [e \in 0..(d - 1) |-> IF d < 32 THEN r + 2 * e ELSE 2 * (r + e \div 32)]]
Mom0(o, d) ==
  IF IsRowWise(o)
  THEN [r \in 0..NumRows |-> 4 * r]
  ELSE [r \in 0..NumRows |-> [e \in 0..(d - 1) |-> 3 * r + 5 * e]]
Grad0(s, d) ==
  [g \in 0..(s - 1) |->
     [e \in 0..(d - 1) |->
        IF d < 32 THEN 2 * g + e + 1 ELSE 2 * (2 * g + 1 + e \div 32)]]

\* Shapes of a well-formed call.
GoodShape(o, d, s) ==
  [momRows |-> NumRows, lrSize |-> 1, lengthsNdim |-> 1, gradDim0 |-> s,
   gradCols |-> d, weightsNdim |-> 1]

\* --------------------------------------------------- segment offset builder
\* cub::DeviceScan::InclusiveSum: with d_temp_storage == NULL it only reports
\* the storage size and writes nothing; otherwise d_out[i] is the running sum.
\* (an exclusive scan, the slip the offset contract rules out)
ExclusiveSum(d_temp_storage, d_in, d_out, num_items) ==
  IF d_temp_storage = "NULL"
  THEN d_out
  ELSE LET run[k \in 0..num_items] ==
             IF k = 0 THEN 0 ELSE run[k - 1] + d_in[k]
       IN [k \in 1..num_items |-> run[k - 1]]

InclusiveSum(d_temp_storage, d_in, d_out, num_items) ==
  IF d_temp_storage = "NULL"
  THEN d_out
  ELSE LET run[k \in 0..num_items] ==
             IF k = 0 THEN 0 ELSE run[k - 1] + d_in[k]
       IN [k \in 1..num_items |-> run[k]]

inclusive_scan_wrapper(length_data, len_length, prefix_sum_out) ==
  LET sized == InclusiveSum("NULL", length_data, prefix_sum_out, len_length)
  IN InclusiveSum("temp_buffer", length_data, sized, len_length)

\* ------------------------------------------------------------ host: checks
ParamSize == NumRows * post
MomSize == shape.momRows * (IF IsRowWise(op) THEN 1 ELSE post)

\* CAFFE_ENFORCE_EQ of RunOnDevice.  The row-wise operators do not compare
\* the sizes of PARAM and MOMENT_1 here.
RunOnDeviceEnforce ==
  /\ IsRowWise(op) \/ ParamSize = MomSize
  /\ shape.lrSize = 1
  /\ post = shape.gradCols

\* (the checks without the one on the gradient's leading dimension)
DoRunWithType2EnforceNoGrad ==
  /\ shape.lengthsNdim = 1
  /\ IsWeighted(op) => shape.weightsNdim = 1
  /\ IF IsRowWise(op) THEN NumRows = shape.momRows ELSE ParamSize = MomSize

\* CAFFE_ENFORCE of DoRunWithType2, all of them before any output is
\* allocated and before the scan.
DoRunWithType2Enforce ==
  /\ shape.lengthsNdim = 1
  /\ IsWeighted(op) => shape.weightsNdim = 1
  /\ IF IsRowWise(op) THEN NumRows = shape.momRows ELSE ParamSize = MomSize
  /\ S = shape.gradDim0

\* ------------------------------------------------------ host: launch shapes
\* cfg: path "exact" (2-D block, one lane column per element), "strided"
\* (1-D block, lanes stride over the elements) or "warp" (row-wise fast path,
\* 2-D block reduced warp by warp); bx, by = blockDim.x, blockDim.y.
\* (lane rows for the members whatever the lane budget)
SumLaunchLaneRows == [path |-> "exact", bx |-> post, by |-> 2]

SumLaunch ==
  IF post <= maxThreads
  THEN [path |-> "exact", bx |-> post,
        by |-> Min(maxThreads \div post, SEGREDUCE_MINBLOCKS)]
  ELSE [path |-> "strided", bx |-> maxThreads, by |-> 1]

NumThreads ==
  IF post > 128 THEN 512 ELSE IF post > 64 THEN 128
  ELSE IF post > 32 THEN 64 ELSE 32

WeightedLaunch == [path |-> "strided", bx |-> NumThreads, by |-> 1]

\* (the fast path for every D that leaves room for two lane rows)
RowWiseLaunchAnyWidth ==
  IF post <= maxThreads \div 2
  THEN [path |-> "warp", bx |-> post,
        by |-> Min(maxThreads \div post, SEGREDUCE_MINBLOCKS)]
  ELSE [path |-> "strided", bx |-> Min(maxThreads, post), by |-> 1]

RowWiseLaunch ==
  IF post <= maxThreads \div 2 /\ post % 32 = 0
  THEN [path |-> "warp", bx |-> post,
        by |-> Min(maxThreads \div post, SEGREDUCE_MINBLOCKS)]
  ELSE [path |-> "strided", bx |-> Min(maxThreads, post), by |-> 1]

LaunchCfg ==
  IF op = "Sum" THEN SumLaunch
  ELSE IF op = "RowWiseSum" THEN RowWiseLaunch
  ELSE WeightedLaunch

NoKernel == [status |-> "none", cfg |-> [path |-> "none", bx |-> 0, by |-> 0]]

\* ------------------------------------------------- host: the constructor
\* GetSingleArgument<T>(name, default): an argument is <<>> when absent.
GetSingleArgument(arg, default) == IF arg = <<>> THEN default ELSE arg[1]

\* (any decay taken)
DecayAny(decay) == TRUE

\* CAFFE_ENFORCE_EQ(decay, 1.0, "Decay is not supported for SparseAdagradOp")
DecaySupported(decay) == decay = 1

\* The constructor of the operator: it throws, and no instance exists, when
\* the decay argument is not 1.
Construct ==
  /\ hostpc = "new"
  /\ hostpc' = IF DecaySupported(GetSingleArgument(hyper.decay, 1))
               THEN "start" ELSE "rejected"
  /\ UNCHANGED <<inputs, param, mom, wgrad, stream, offsets, kernel, blocks,
                 lanes, touched, ghost>>

\* --------------------------------------------------------- host: the call
\* (the kernel enqueued ahead of the scan)
StreamWorkKernelFirst(len_length) ==
  <<[work |-> "kernel", left |-> {}], [work |-> "scan", left |-> 1..len_length]>>

\* The device work of a call in the order it is put on
\* context_.cuda_stream(): inclusive_scan_wrapper, then the kernel.
StreamWork(len_length) ==
  <<[work |-> "scan", left |-> 1..len_length], [work |-> "kernel", left |-> {}]>>

\* (no output allocated)
AuxGradNone(n) == [alloc |-> FALSE, data |-> <<>>]

\* Output(AUX_GRAD, n, ...): the weight-gradient output, n elements, none
\* written yet.
AuxGrad(n) == [alloc |-> TRUE, data |-> [k \in 1..n |-> {}]]

\* RunOnDevice -> DoRunWithType -> DoRunWithType2, up to its return.
RunOnDevice ==
  /\ hostpc = "start"
  /\ UNCHANGED <<inputs, param, mom, blocks, lanes, touched, ghost>>
  /\ IF ~RunOnDeviceEnforce
     THEN /\ hostpc' = "error"
          /\ UNCHANGED <<wgrad, stream, offsets, kernel>>
     ELSE IF M = 0
     THEN \* DoRunWithType: n == 0
          /\ hostpc' = "ok"
          /\ wgrad' = IF IsWeighted(op) THEN AuxGrad(0) ELSE wgrad
          /\ UNCHANGED <<stream, offsets, kernel>>
     ELSE IF ~DoRunWithType2Enforce
     THEN /\ hostpc' = "error"
          /\ UNCHANGED <<wgrad, stream, offsets, kernel>>
     ELSE /\ hostpc' = "ok"
          /\ wgrad' = IF IsWeighted(op) THEN AuxGrad(M) ELSE wgrad
          /\ IF S <= 0
             THEN UNCHANGED <<stream, offsets, kernel>>
             ELSE /\ offsets' = [k \in 1..S |-> 0]
                  /\ stream' = StreamWork(S)
                  /\ kernel' = [status |-> "queued", cfg |-> LaunchCfg]

\* ------------------------------------------------------------- the stream
\* The scan at the head of the stream writes one more of its offsets, in
\* any order; it leaves the stream when all are written.
StreamScan ==
  /\ stream # <<>> /\ Head(stream).work = "scan"
  /\ \E k \in Head(stream).left :
       /\ offsets' = [offsets EXCEPT
                        ![k] = inclusive_scan_wrapper(lengths, S, offsets)[k]]
       /\ stream' = IF Head(stream).left = {k} THEN Tail(stream)
                    ELSE [stream EXCEPT ![1].left = @ \ {k}]
  /\ UNCHANGED <<inputs, param, mom, wgrad, hostpc, kernel, blocks, lanes,
                 touched, ghost>>

\* Lanes with element work.  A lane with threadIdx.x >= post of a 1-D block
\* never enters an element loop; it only takes part in the block-wide
\* collectives, where it contributes 0, and is not modelled as a process.
WorkX(cfg) == IF cfg.path = "warp" THEN cfg.bx \div 32 ELSE Min(cfg.bx, post)

LaneIds(cfg) ==
  {<<b, y, x>> : b \in 0..(S - 1), y \in 0..(cfg.by - 1),
                 x \in 0..(WorkX(cfg) - 1)}

IdleLane == [pc |-> "wait", line |-> 0, i |-> 0, r1 |-> 0, r2 |-> 0,
             w_grad |-> 0, xs |-> <<>>]

IdleBlock == [st |-> "pending", start |-> 0, end |-> 0, scratch |-> 0]

StreamLaunch ==
  /\ stream # <<>> /\ Head(stream).work = "kernel"
  /\ stream' = Tail(stream)
  /\ kernel' = [kernel EXCEPT !.status = "running"]
  /\ blocks' = [b \in 0..(S - 1) |-> IdleBlock]
  /\ lanes' = [id \in LaneIds(kernel.cfg) |-> IdleLane]
  /\ UNCHANGED <<inputs, param, mom, wgrad, hostpc, offsets, touched, ghost>>

\* --------------------------------------------------- kernels: common entry
\* (the row count of the parameter table passed as N)
KernelNRows == NumRows

\* The value the host passes as the kernels' N: indicesInput.dim(0).
KernelN == M

LR == hyper.LR
epsilon == hyper.epsilon
weight_decay == hyper.weight_decay

BlockOf(id) == id[1]
LanesOf(b) == {id \in DOMAIN lanes : BlockOf(id) = b}

\* (the member loop entered without its test, as a do-while would)
FirstPosNoTest(id, start, end) ==
  [IdleLane EXCEPT !.pc = "rd",
                   !.line = IF kernel.cfg.path = "strided" THEN start
                            ELSE start + id[2],
                   !.i = id[3]]

\* First position of a lane once its block knows [start, end).
FirstPos(id, start, end) ==
  IF kernel.cfg.path = "strided"
  THEN [IdleLane EXCEPT !.pc = IF start < end THEN "rd" ELSE "done",
                        !.line = start, !.i = id[3]]
  ELSE [IdleLane EXCEPT !.pc = IF start + id[2] < end THEN "rd" ELSE "done",
                        !.line = start + id[2], !.i = id[3]]

\* int start = group == 0 ? 0 : prefix_sum_length_data[group - 1];
\* (a start that ignores the segments before, the slip a missing offset
\* would be)
SegmentStartZero(b) == 0

SegmentStart(b) == IF b = 0 THEN 0 ELSE At(offsets, b - 1)

\* (the end of the whole batch taken as the end of every segment)
SegmentEndOfBatch(b) == At(offsets, S - 1)

\* int end = prefix_sum_length_data[group];
SegmentEnd(b) == At(offsets, b)

\* group, start, end and the two CUDA_KERNEL_ASSERTs.  Every lane of a block
\* computes the same values from the read-only offsets, so the block takes
\* this step once.  A failed assertion halts the kernel.
BlockEntry(b) ==
  /\ kernel.status = "running"
  /\ blocks[b].st = "pending"
  /\ LET start == SegmentStart(b)
         end == SegmentEnd(b)
     IN IF start <= KernelN /\ end <= KernelN
        THEN /\ blocks' = [blocks EXCEPT ![b].st = "running",
                                         ![b].start = start, ![b].end = end]
             /\ lanes' = [id \in DOMAIN lanes |->
                            IF BlockOf(id) = b
                            THEN FirstPos(id, start, end) ELSE lanes[id]]
             /\ UNCHANGED kernel
        ELSE /\ blocks' = [blocks EXCEPT ![b].st = "trapped"]
             /\ kernel' = [kernel EXCEPT !.status = "trap"]
             /\ UNCHANGED lanes
  /\ UNCHANGED <<inputs, param, mom, wgrad, hostpc, stream, offsets, touched,
                 ghost>>

\* Ghost bookkeeping of one finished (member, element) update.
Touch(b, line, i) ==
  /\ touched' = touched \cup {<<b, line, i>>}
  /\ ghost' = [ghost EXCEPT !.dup = @ \/ <<b, line, i>> \in touched]

\* ------------------------------------------------- the exact (Sum) kernel
\* float gi = grad[gradIdx] + weight_decay * param[paramIdx];
EffectiveGrad(g, wd, p) == g + wd * p

\* (the square stored without the accumulator read before)
MomNewOverwrite(gi, m) == gi * gi

\* float mom_new = gi * gi + param_mom[paramIdx];
MomNew(gi, m) == gi * gi + m

\* (the step scaled by the accumulator as it was before this update)
ParamNewOldMom(lr, gi, mom_new, eps, p) ==
  Quot(lr * gi, Sqrt(mom_new - gi * gi) + eps) + p

\* float param_new = LR * gi / (sqrtf(mom_new) + epsilon) + param[paramIdx];
ParamNew(lr, gi, mom_new, eps, p) == Quot(lr * gi, Sqrt(mom_new) + eps) + p

\* (every lane row stepping to the very next member)
SumAdvanceUnitStep(l, b) ==
  IF l.line + 1 < blocks[b].end
  THEN [l EXCEPT !.line = l.line + 1, !.pc = "rd"]
  ELSE [l EXCEPT !.i = l.i + kernel.cfg.bx, !.line = blocks[b].start,
                 !.pc = IF kernel.cfg.path = "strided" /\
                            l.i + kernel.cfg.bx < post
                        THEN "rd" ELSE "done"]

\* The next position of a lane of the Sum kernel after one update.
SumAdvance(l, b) ==
  IF kernel.cfg.path = "exact"
  THEN [l EXCEPT !.line = l.line + kernel.cfg.by,
                 !.pc = IF l.line + kernel.cfg.by < blocks[b].end
                        THEN "rd" ELSE "done"]
  ELSE IF l.line + 1 < blocks[b].end
  THEN [l EXCEPT !.line = l.line + 1, !.pc = "rd"]
  ELSE [l EXCEPT !.i = l.i + kernel.cfg.bx, !.line = blocks[b].start,
                 !.pc = IF l.i + kernel.cfg.bx < post THEN "rd" ELSE "done"]

\* index = indices[line]; gi and mom_new are read into registers.
SumRead(id) ==
  /\ kernel.status = "running" /\ op = "Sum"
  /\ lanes[id].pc = "rd"
  /\ LET l == lanes[id]
         index == At(indices, l.line)
         gi == EffectiveGrad(grad[BlockOf(id)][l.i], weight_decay,
                             param[index][l.i])
     IN /\ lanes' = [lanes EXCEPT ![id].r1 = gi,
                                  ![id].r2 = MomNew(gi, mom[index][l.i]),
                                  ![id].pc = "wm"]
        /\ ghost' = [ghost EXCEPT !.oob = @ \/ index >= NumRows]
  /\ UNCHANGED <<inputs, param, mom, wgrad, hostpc, stream, offsets, kernel,
                 blocks, touched>>

\* param_mom[paramIdx] = mom_new;
SumWriteMom(id) ==
  /\ kernel.status = "running" /\ op = "Sum"
  /\ lanes[id].pc = "wm"
  /\ LET l == lanes[id]
         index == At(indices, l.line)
     IN mom' = [mom EXCEPT ![index][l.i] = l.r2]
  /\ lanes' = [lanes EXCEPT ![id].pc = "wp"]
  /\ UNCHANGED <<inputs, param, wgrad, hostpc, stream, offsets, kernel,
                 blocks, touched, ghost>>

\* param[paramIdx] = param_new; then the loop steps.
SumWriteParam(id) ==
  /\ kernel.status = "running" /\ op = "Sum"
  /\ lanes[id].pc = "wp"
  /\ LET l == lanes[id]
         index == At(indices, l.line)
     IN /\ param' = [param EXCEPT ![index][l.i] =
                       ParamNew(LR, l.r1, l.r2, epsilon, param[index][l.i])]
        /\ lanes' = [lanes EXCEPT ![id] = SumAdvance(l, BlockOf(id))]
        /\ Touch(BlockOf(id), l.line, l.i)
  /\ UNCHANGED <<inputs, mom, wgrad, hostpc, stream, offsets, kernel, blocks>>

\* ------------------------------------------------ block-wide collectives
\* The sum of f[id] over id in ids.
RECURSIVE SumOver(_, _)
SumOver(ids, f) ==
  IF ids = {} THEN 0
  ELSE LET id == CHOOSE x \in ids : TRUE
       IN f[id] + SumOver(ids \ {id}, f)

\* The sum of f[i] over the element numbers i in ids, taken in the order of
\* the elements of a row.
SumElems(ids, f) ==
  LET acc[k \in (-1)..(post - 1)] ==
        IF k < 0 THEN 0
        ELSE acc[k - 1] + (IF k \in ids THEN f[k] ELSE 0)
  IN acc[post - 1]

\* (lane 0 keeps its own value: the reduction left out)
ReduceLane0(ids, f) == f[CHOOSE id \in ids : id[3] = 0]

\* cub::BlockReduce over the lanes ids, each contributing f[id].
Reduce(ids, f) == SumOver(ids, f)

\* (a barrier that lets a lane go on without waiting for the others)
SomeArrived(b, at) == \E id \in LanesOf(b) : lanes[id].pc = at

\* __syncthreads(): the lanes waiting at the barrier "at" go on once every
\* lane of the block that has not left the kernel waits there.
AllArrived(b, at) ==
  /\ \E id \in LanesOf(b) : lanes[id].pc = at
  /\ \A id \in LanesOf(b) : lanes[id].pc \in {at, "done"}

\* (the barrier at the end of a member left as soon as one lane is there)
AtBarrierAlone(b) == SomeArrived(b, "bar")

AtBarrier(b) == AllArrived(b, "bar")

\* What a __syncthreads() can do once every lane of block b that is still
\* in the kernel waits at it.  When all lanes of the block arrive it
\* releases them.  When some lanes have left the member loop (the loop
\* condition differs between lanes of the block) its behaviour is undefined:
\* the waiting lanes are released, as on hardware that counts only the lanes
\* that have not exited, or they wait forever.
BarrierOutcomes(b) ==
  IF \E id \in LanesOf(b) : lanes[id].pc = "done"
  THEN {"release", "hang"} ELSE {"release"}

\* ------------------------------------------- the weighted (exact) kernel
\* auto out_grad_temp = in_weight_temp * in_grad_temp + weight_decay * param
OutGrad(w, g, wd, p) == w * g + wd * p

\* w_grad += in_grad_temp * param[paramIdx];
WGradTerm(g, p) == g * p

\* (the weight taken at the member's position in the whole batch)
InWeightGlobal(b, line) == At(weights, line)

\* The weight of the member at position line: weights[line - start].
InWeight(b, line) == At(weights, line - blocks[b].start)

\* Reads of one element: w_grad, out_grad_temp and mom_new.
WSumRead(id) ==
  /\ kernel.status = "running" /\ op = "WeightedSum"
  /\ lanes[id].pc = "rd"
  /\ LET l == lanes[id]
         b == BlockOf(id)
         index == At(indices, l.line)
         p == param[index][l.i]
         og == OutGrad(InWeight(b, l.line), grad[b][l.i], weight_decay, p)
     IN /\ lanes' = [lanes EXCEPT
                       ![id].w_grad = @ + WGradTerm(grad[b][l.i], p),
                       ![id].r1 = og,
                       ![id].r2 = MomNew(og, mom[index][l.i]),
                       ![id].pc = "wm"]
        /\ ghost' = [ghost EXCEPT !.oob = @ \/ index >= NumRows]
  /\ UNCHANGED <<inputs, param, mom, wgrad, hostpc, stream, offsets, kernel,
                 blocks, touched>>

\* param_mom[paramIdx] = mom_new; param[paramIdx] = param_new; then the
\* element loop steps, and after the lane's last element the lane enters
\* BlockReduce with its w_grad.
WSumWrite(id) ==
  /\ kernel.status = "running" /\ op = "WeightedSum"
  /\ lanes[id].pc = "wm"
  /\ LET l == lanes[id]
         index == At(indices, l.line)
         more == l.i + kernel.cfg.bx < post
     IN /\ mom' = [mom EXCEPT ![index][l.i] = l.r2]
        /\ param' = [param EXCEPT ![index][l.i] =
                       ParamNew(LR, l.r1, l.r2, epsilon, param[index][l.i])]
        /\ lanes' = [lanes EXCEPT
                       ![id].i = IF more THEN l.i + kernel.cfg.bx ELSE l.i,
                       ![id].pc = IF more THEN "rd" ELSE "red"]
        /\ Touch(BlockOf(id), l.line, l.i)
  /\ UNCHANGED <<inputs, wgrad, hostpc, stream, offsets, kernel, blocks>>

\* w_grad = BlockReduce(temp_storage).Reduce(w_grad, cub::Sum()): every lane
\* of the block has entered; lane 0 receives the sum.
WGradReduce(b) ==
  /\ kernel.status = "running" /\ IsWeighted(op)
  /\ LanesOf(b) # {}
  /\ \A id \in LanesOf(b) : lanes[id].pc = "red"
  /\ LET total == Reduce(LanesOf(b), [id \in LanesOf(b) |-> lanes[id].w_grad])
     IN lanes' = [id \in DOMAIN lanes |->
                    IF BlockOf(id) # b THEN lanes[id]
                    ELSE IF id[3] = 0
                    THEN [lanes[id] EXCEPT !.w_grad = total, !.pc = "wg"]
                    ELSE [lanes[id] EXCEPT !.pc = "bar"]]
  /\ UNCHANGED <<inputs, param, mom, wgrad, hostpc, stream, offsets, kernel,
                 blocks, touched, ghost>>

\* if (threadIdx.x == 0) weights_grad_out[line] = w_grad;
WGradWrite(id) ==
  /\ kernel.status = "running" /\ IsWeighted(op)
  /\ lanes[id].pc = "wg"
  /\ wgrad' = [wgrad EXCEPT !.data[lanes[id].line + 1] = {lanes[id].w_grad}]
  /\ lanes' = [lanes EXCEPT ![id].pc = "bar"]
  /\ ghost' = [ghost EXCEPT
                 !.wdup = @ \/ \E w \in ghost.wby : w[2] = lanes[id].line,
                 !.wby = @ \cup {<<id, lanes[id].line>>}]
  /\ UNCHANGED <<inputs, param, mom, hostpc, stream, offsets, kernel, blocks,
                 touched>>

\* The __syncthreads() that ends a member of a weighted kernel; the member
\* loop steps.
WBarrier(b) ==
  /\ kernel.status = "running" /\ IsWeighted(op)
  /\ blocks[b].st = "running"
  /\ AtBarrier(b)
  /\ \E outcome \in BarrierOutcomes(b) :
       IF outcome = "release"
       THEN /\ lanes' = [id \in DOMAIN lanes |->
                           IF BlockOf(id) # b \/ lanes[id].pc # "bar"
                           THEN lanes[id]
                           ELSE [lanes[id] EXCEPT
                                   !.line = @ + 1, !.i = id[3], !.w_grad = 0,
                                   !.pc = IF lanes[id].line + 1 < blocks[b].end
                                          THEN "rd" ELSE "done"]]
            /\ UNCHANGED blocks
       ELSE /\ blocks' = [blocks EXCEPT ![b].st = "hung"]
            /\ UNCHANGED lanes
  /\ UNCHANGED <<inputs, param, mom, wgrad, hostpc, stream, offsets, kernel,
                 touched, ghost>>

\* ------------------------------------------ the row-wise kernels: shared
\* The elements lane x of a 1-D block owns: i = x, x + blockDim.x, ... < post.
OwnElems(x) == {i \in 0..(post - 1) : i % kernel.cfg.bx = x}

\* float step = LR / (sqrtf(param_mom[index]) + epsilon);
RowStep(lr, m, eps) == Quot(lr, Sqrt(m) + eps)

\* row_sum_squares_avg = reduce_result / static_cast<float>(post);
RowAvg(reduce_result, d) == Quot(reduce_result, d)

\* sum_squares += x_ij * x_ij over the lane's elements (generic row-wise
\* kernel and weighted row-wise kernel); the lane then enters BlockReduce.
RowSquares(id) ==
  /\ kernel.status = "running" /\ IsRowWise(op) /\ kernel.cfg.path = "strided"
  /\ lanes[id].pc = "rd"
  /\ LET l == lanes[id]
         b == BlockOf(id)
         index == At(indices, l.line)
         own == OwnElems(id[3])
         sq == [i \in own |->
                  LET x == EffectiveGrad(grad[b][i], weight_decay,
                                         param[index][i])
                  IN x * x]
     IN /\ lanes' = [lanes EXCEPT ![id].r1 = SumElems(own, sq),
                                  ![id].pc = "red2"]
        /\ ghost' = [ghost EXCEPT !.oob = @ \/ index >= NumRows]
  /\ UNCHANGED <<inputs, param, mom, wgrad, hostpc, stream, offsets, kernel,
                 blocks, touched>>

\* reduce_result = BlockReduce(...).Sum(sum_squares, valid): every lane has
\* entered; lane 0 receives the sum of the first valid = min(post,
\* blockDim.x) lanes and goes on to the accumulator, the others to the
\* barrier.
RowSquaresReduce(b) ==
  /\ kernel.status = "running" /\ IsRowWise(op) /\ kernel.cfg.path = "strided"
  /\ LanesOf(b) # {}
  /\ \A id \in LanesOf(b) : lanes[id].pc = "red2"
  /\ LET valid == {id \in LanesOf(b) : id[3] < Min(post, kernel.cfg.bx)}
         total == Reduce(valid, [id \in valid |-> lanes[id].r1])
     IN lanes' = [id \in DOMAIN lanes |->
                    IF BlockOf(id) # b THEN lanes[id]
                    ELSE IF id[3] = 0
                    THEN [lanes[id] EXCEPT !.r1 = total, !.pc = "mr"]
                    ELSE [lanes[id] EXCEPT !.pc = "bar1"]]
  /\ UNCHANGED <<inputs, param, mom, wgrad, hostpc, stream, offsets, kernel,
                 blocks, touched, ghost>>

\* The increment lane 0 adds to param_mom[index].
RowIncrement(avg, w) == IF IsWeighted(op) THEN avg * w * w ELSE avg

\* Lane 0: row_sum_squares_avg is stored, param_mom[index] is read and the
\* new accumulator computed (a plain, non-atomic read-modify-write).
RowMomRead(id) ==
  /\ kernel.status = "running" /\ IsRowWise(op)
  /\ lanes[id].pc = "mr"
  /\ LET l == lanes[id]
         b == BlockOf(id)
         index == At(indices, l.line)
         avg == RowAvg(l.r1, post)
         w == IF IsWeighted(op) THEN InWeight(b, l.line) ELSE 1
     IN /\ blocks' = [blocks EXCEPT ![b].scratch = avg]
        /\ lanes' = [lanes EXCEPT ![id].r2 = mom[index] + RowIncrement(avg, w),
                                  ![id].pc = "mw"]
  /\ UNCHANGED <<inputs, param, mom, wgrad, hostpc, stream, offsets, kernel,
                 touched, ghost>>

\* Lane 0: param_mom[index] = mom_new, then __syncthreads().
RowMomWrite(id) ==
  /\ kernel.status = "running" /\ IsRowWise(op)
  /\ lanes[id].pc = "mw"
  /\ mom' = [mom EXCEPT ![At(indices, lanes[id].line)] = lanes[id].r2]
  /\ lanes' = [lanes EXCEPT ![id].pc = "bar1"]
  /\ UNCHANGED <<inputs, param, wgrad, hostpc, stream, offsets, kernel,
                 blocks, touched, ghost>>

\* The __syncthreads() between the accumulator write and the step.
RowBarrier(b) ==
  /\ kernel.status = "running" /\ IsRowWise(op)
  /\ blocks[b].st = "running"
  /\ AllArrived(b, "bar1")
  /\ \E outcome \in BarrierOutcomes(b) :
       IF outcome = "release"
       THEN /\ lanes' = [id \in DOMAIN lanes |->
                           IF BlockOf(id) = b /\ lanes[id].pc = "bar1"
                           THEN [lanes[id] EXCEPT !.pc = "up"] ELSE lanes[id]]
            /\ UNCHANGED blocks
       ELSE /\ blocks' = [blocks EXCEPT ![b].st = "hung"]
            /\ UNCHANGED lanes
  /\ UNCHANGED <<inputs, param, mom, wgrad, hostpc, stream, offsets, kernel,
                 touched, ghost>>

\* ------------------------------------- the row-wise kernel, generic path
\* step is read from the accumulator and the lane updates its elements:
\* param[paramIdx] = param[paramIdx] + x_ij * step; the member loop steps.
RowUpdate(id) ==
  /\ kernel.status = "running" /\ op = "RowWiseSum"
  /\ kernel.cfg.path = "strided"
  /\ lanes[id].pc = "up"
  /\ LET l == lanes[id]
         b == BlockOf(id)
         index == At(indices, l.line)
         own == OwnElems(id[3])
         step == RowStep(LR, mom[index], epsilon)
     IN /\ param' = [param EXCEPT ![index] =
                       [i \in DOMAIN @ |->
                          IF i \in own
                          THEN @[i] + EffectiveGrad(grad[b][i], weight_decay,
                                                    @[i]) * step
                          ELSE @[i]]]
        /\ lanes' = [lanes EXCEPT
                       ![id].line = l.line + 1,
                       ![id].pc = IF l.line + 1 < blocks[b].end
                                  THEN "rd" ELSE "done"]
        /\ touched' = touched \cup {<<b, l.line, i>> : i \in own}
        /\ ghost' = [ghost EXCEPT !.dup = @ \/
                       \E i \in own : <<b, l.line, i>> \in touched]
  /\ UNCHANGED <<inputs, mom, wgrad, hostpc, stream, offsets, kernel, blocks>>

\* ------------------------------------ the row-wise kernel, weighted
\* step is read from the accumulator; for the lane's elements w_grad is
\* accumulated and param[paramIdx] = out_grad_temp * step + param[paramIdx];
\* the lane then enters BlockReduce with its w_grad.
RowWUpdate(id) ==
  /\ kernel.status = "running" /\ op = "RowWiseWeightedSum"
  /\ lanes[id].pc = "up"
  /\ LET l == lanes[id]
         b == BlockOf(id)
         index == At(indices, l.line)
         own == OwnElems(id[3])
         step == RowStep(LR, mom[index], epsilon)
         w == InWeight(b, l.line)
     IN /\ param' = [param EXCEPT ![index] =
                       [i \in DOMAIN @ |->
                          IF i \in own
                          THEN OutGrad(w, grad[b][i], weight_decay, @[i]) * step
                               + @[i]
                          ELSE @[i]]]
        /\ lanes' = [lanes EXCEPT
                       ![id].w_grad =
                         SumElems(own, [i \in own |->
                                         WGradTerm(grad[b][i], param[index][i])]),
                       ![id].pc = "red"]
        /\ touched' = touched \cup {<<b, l.line, i>> : i \in own}
        /\ ghost' = [ghost EXCEPT !.dup = @ \/
                       \E i \in own : <<b, l.line, i>> \in touched]
  /\ UNCHANGED <<inputs, mom, wgrad, hostpc, stream, offsets, kernel, blocks>>

\* ----------------------------- the row-wise kernel, exact-block (warp) path
\* A process of this path is a warp <<block, threadIdx.y, warp of the row>>:
\* its 32 lanes run in lockstep and meet in WarpReduce.  post == blockDim.x
\* is a multiple of 32, so a warp lies inside one lane row.
WarpElems(id) == {32 * id[3] + k : k \in 0..31}

\* x_ij of the warp's 32 lanes and their warp-wide sum of squares.
WarpSquares(id) ==
  /\ kernel.status = "running" /\ op = "RowWiseSum" /\ kernel.cfg.path = "warp"
  /\ lanes[id].pc = "rd"
  /\ LET l == lanes[id]
         b == BlockOf(id)
         index == At(indices, l.line)
         xs == [i \in WarpElems(id) |->
                  EffectiveGrad(grad[b][i], weight_decay, param[index][i])]
     IN /\ lanes' = [lanes EXCEPT
                       ![id].xs = xs,
                       ![id].r1 = SumElems(WarpElems(id),
                                          [i \in WarpElems(id) |-> xs[i] * xs[i]]),
                       ![id].pc = "ws"]
        /\ ghost' = [ghost EXCEPT !.oob = @ \/ index >= NumRows]
  /\ UNCHANGED <<inputs, param, mom, wgrad, hostpc, stream, offsets, kernel,
                 blocks, touched>>

\* The warp's leader: row_sum_squares_avg = reduce_result / post.  The
\* variable is __shared__: one cell for all warps of the block.
WarpStoreAvg(id) ==
  /\ kernel.status = "running" /\ op = "RowWiseSum" /\ kernel.cfg.path = "warp"
  /\ lanes[id].pc = "ws"
  /\ blocks' = [blocks EXCEPT ![BlockOf(id)].scratch =
                  RowAvg(lanes[id].r1, post)]
  /\ lanes' = [lanes EXCEPT ![id].r2 = RowAvg(lanes[id].r1, post),
                            ![id].pc = "aa"]
  /\ UNCHANGED <<inputs, param, mom, wgrad, hostpc, stream, offsets, kernel,
                 touched, ghost>>

\* The values the leader's read of row_sum_squares_avg can give: no barrier
\* separates the warps' stores from this read, so it is the value the leader
\* stored (kept in a register) or whatever the shared cell holds now.
ScratchRead(own, cell) == {own, cell}

\* gpuAtomicAdd(&param_mom[index], static_cast<T>(row_sum_squares_avg)),
\* then __syncthreads().
WarpAtomicAdd(id) ==
  /\ kernel.status = "running" /\ op = "RowWiseSum" /\ kernel.cfg.path = "warp"
  /\ lanes[id].pc = "aa"
  /\ \E v \in ScratchRead(lanes[id].r2, blocks[BlockOf(id)].scratch) :
       mom' = [mom EXCEPT ![At(indices, lanes[id].line)] = @ + v]
  /\ lanes' = [lanes EXCEPT ![id].pc = "bar1"]
  /\ UNCHANGED <<inputs, param, wgrad, hostpc, stream, offsets, kernel,
                 blocks, touched, ghost>>

\* step is read from the accumulator and the warp's 32 elements are
\* updated with the x_ij kept in registers; line += blockDim.y.
WarpUpdate(id) ==
  /\ kernel.status = "running" /\ op = "RowWiseSum" /\ kernel.cfg.path = "warp"
  /\ lanes[id].pc = "up"
  /\ LET l == lanes[id]
         b == BlockOf(id)
         index == At(indices, l.line)
         own == WarpElems(id)
         step == RowStep(LR, mom[index], epsilon)
     IN /\ param' = [param EXCEPT ![index] =
                       [i \in DOMAIN @ |->
                          IF i \in own THEN @[i] + l.xs[i] * step ELSE @[i]]]
        /\ lanes' = [lanes EXCEPT
                       ![id].line = l.line + kernel.cfg.by,
                       ![id].xs = <<>>,
                       ![id].pc = IF l.line + kernel.cfg.by < blocks[b].end
                                  THEN "rd" ELSE "done"]
        /\ touched' = touched \cup {<<b, l.line, i>> : i \in own}
        /\ ghost' = [ghost EXCEPT !.dup = @ \/
                       \E i \in own : <<b, l.line, i>> \in touched]
  /\ UNCHANGED <<inputs, mom, wgrad, hostpc, stream, offsets, kernel, blocks>>

\* ------------------------------------------------------- kernel completion
KernelComplete ==
  /\ kernel.status = "running"
  /\ \A b \in DOMAIN blocks : blocks[b].st = "running"
  /\ \A id \in DOMAIN lanes : lanes[id].pc = "done"
  /\ kernel' = [kernel EXCEPT !.status = "done"]
  /\ UNCHANGED <<inputs, param, mom, wgrad, hostpc, stream, offsets, blocks,
                 lanes, touched, ghost>>

\* ---------------------------------------------------------- initial states
LengthSeqs == {l \in SeqsUpTo(0..MaxM, MaxSegs) : SumSeq(l) <= MaxM}
\* Index arrays of n members over the rows 0..(v - 1): the rows in rotation
\* (pairwise distinct while n <= v) and one row repeated.
Rotations(v, n) == {[k \in 1..n |-> (c + k - 1) % v] : c \in 0..(v - 1)}
IndexPatterns(v, n) ==
  Rotations(v, n) \cup {[k \in 1..n |-> c] : c \in 0..(v - 1)}
\* Any row numbers, the row behind the table included.
IndexSeqs(n) == IndexPatterns(NumRows + 1, n)
\* Rows of the table.
RowSeqs(n) == Rotations(NumRows, n) \cup {[k \in 1..n |-> 0]}

\* (post, maxThreads) pairs: the exact-block path (two lane rows) and the
\* strided path (one lane striding over two elements).
SumDevices == {<<1, 2>>, <<2, 1>>}
\* A device with room for more lane rows than SEGREDUCE_MINBLOCKS.
WideDevice == <<1, 32>>

NewOperator(o, dev, l, ix, w, h, sh, pc) ==
  /\ op = o
  /\ post = dev[1]
  /\ maxThreads = dev[2]
  /\ shape = sh
  /\ lengths = l
  /\ indices = ix
  /\ grad = Grad0(Len(l), dev[1])
  /\ weights = w
  /\ hyper = h
  /\ param = Param0(dev[1])
  /\ mom = Mom0(o, dev[1])
  /\ wgrad = [alloc |-> FALSE, data |-> <<>>]
  /\ hostpc = pc
  /\ stream = <<>>
  /\ offsets = <<>>
  /\ kernel = NoKernel
  /\ blocks = <<>>
  /\ lanes = <<>>
  /\ touched = {}
  /\ ghost = [oob |-> FALSE, dup |-> FALSE, wdup |-> FALSE, wby |-> {}]

\* An operator that has been constructed, before its call.
InitCall(o, dev, l, ix, w, h, sh) ==
  NewOperator(o, dev, l, ix, w, h, sh, "start")

Hypers(wds) ==
  {[LR |-> 12, epsilon |-> 1, weight_decay |-> wd, decay |-> <<>>] :
     wd \in wds}

\* The decay argument: absent, 1 or another value.
DecayArgs == {<<>>, <<1>>, <<2>>}

\* Weights of n members, different from position to position, together with
\* a weight decay.
WeightedInputs(n) ==
  {<<[k \in 1..n |-> h.weight_decay + k], h>> : h \in Hypers({0, 1})}

\* Calls of the Sum operator with well-formed shapes; the index array holds
\* any row numbers, the row behind the table included.
Init ==
  \/ \E dev \in SumDevices, l \in LengthSeqs, h \in Hypers({0, 1}) :
       \E ix \in IndexSeqs(SumSeq(l)) :
         InitCall("Sum", dev, l, ix, <<>>, h, GoodShape("Sum", dev[1], Len(l)))
  \/ \E l \in {k \in LengthSeqs : Len(k) = 1}, h \in Hypers({0}) :
       \E ix \in RowSeqs(SumSeq(l)) :
         InitCall("Sum", WideDevice, l, ix, <<>>, h,
                  GoodShape("Sum", WideDevice[1], Len(l)))

Next ==
  \/ RunOnDevice
  \/ StreamScan
  \/ StreamLaunch
  \/ KernelComplete
  \/ \E b \in DOMAIN blocks : BlockEntry(b)
  \/ \E id \in DOMAIN lanes : SumRead(id)
  \/ \E id \in DOMAIN lanes : SumWriteMom(id)
  \/ \E id \in DOMAIN lanes : SumWriteParam(id)

Spec == Init /\ [][Next]_vars

\* Calls of the two weighted operators with rows of the table.  Rows are two
\* elements wide (two lanes of the 32 have an element each), except in the
\* batches of MaxSegs segments, whose rows have one element: that bounds the
\* interleavings of the blocks.
WeightedDevice(l) == IF Len(l) < MaxSegs THEN <<2, 1024>> ELSE <<1, 1024>>

InitWeighted ==
  \E o \in {"WeightedSum", "RowWiseWeightedSum"}, l \in LengthSeqs :
    \E ix \in RowSeqs(SumSeq(l)), wh \in WeightedInputs(SumSeq(l)) :
      InitCall(o, WeightedDevice(l), l, ix, wh[1], wh[2],
               GoodShape(o, WeightedDevice(l)[1], Len(l)))

NextWeighted ==
  \/ RunOnDevice
  \/ StreamScan
  \/ StreamLaunch
  \/ KernelComplete
  \/ \E b \in DOMAIN blocks : BlockEntry(b)
  \/ \E id \in DOMAIN lanes : WSumRead(id)
  \/ \E id \in DOMAIN lanes : WSumWrite(id)
  \/ \E id \in DOMAIN lanes : RowSquares(id)
  \/ \E b \in DOMAIN blocks : RowSquaresReduce(b)
  \/ \E id \in DOMAIN lanes : RowMomRead(id)
  \/ \E id \in DOMAIN lanes : RowMomWrite(id)
  \/ \E b \in DOMAIN blocks : RowBarrier(b)
  \/ \E id \in DOMAIN lanes : RowWUpdate(id)
  \/ \E b \in DOMAIN blocks : WGradReduce(b)
  \/ \E id \in DOMAIN lanes : WGradWrite(id)
  \/ \E b \in DOMAIN blocks : WBarrier(b)

SpecWeighted == InitWeighted /\ [][NextWeighted]_vars

FairWeighted == SpecWeighted /\ WF_vars(NextWeighted)

\* Calls of the row-wise operators.  The unweighted one on its generic path
\* (two lanes, one element each) and on its exact-block path (rows of one
\* warp, two lane rows); the weighted one as in the calls above.
RowWiseDevices == {<<2, 2>>, <<32, 64>>}

InitRowWise ==
  \/ \E dev \in RowWiseDevices, l \in LengthSeqs, h \in Hypers({0, 1}) :
       \E ix \in RowSeqs(SumSeq(l)) :
         InitCall("RowWiseSum", dev, l, ix, <<>>, h,
                  GoodShape("RowWiseSum", dev[1], Len(l)))
  \/ \E l \in LengthSeqs :
       \E ix \in RowSeqs(SumSeq(l)), wh \in WeightedInputs(SumSeq(l)) :
         InitCall("RowWiseWeightedSum", WeightedDevice(l), l, ix, wh[1], wh[2],
                  GoodShape("RowWiseWeightedSum", WeightedDevice(l)[1], Len(l)))

NextRowWise ==
  \/ RunOnDevice
  \/ StreamScan
  \/ StreamLaunch
  \/ KernelComplete
  \/ \E b \in DOMAIN blocks : BlockEntry(b)
  \/ \E id \in DOMAIN lanes : RowSquares(id)
  \/ \E b \in DOMAIN blocks : RowSquaresReduce(b)
  \/ \E id \in DOMAIN lanes : RowMomRead(id)
  \/ \E id \in DOMAIN lanes : RowMomWrite(id)
  \/ \E b \in DOMAIN blocks : RowBarrier(b)
  \/ \E id \in DOMAIN lanes : RowUpdate(id)
  \/ \E id \in DOMAIN lanes : WarpSquares(id)
  \/ \E id \in DOMAIN lanes : WarpStoreAvg(id)
  \/ \E id \in DOMAIN lanes : WarpAtomicAdd(id)
  \/ \E id \in DOMAIN lanes : WarpUpdate(id)
  \/ \E id \in DOMAIN lanes : RowWUpdate(id)
  \/ \E b \in DOMAIN blocks : WGradReduce(b)
  \/ \E id \in DOMAIN lanes : WGradWrite(id)
  \/ \E b \in DOMAIN blocks : WBarrier(b)

SpecRowWise == InitRowWise /\ [][NextRowWise]_vars

\* The same calls on a device that keeps running whatever can run.
FairRowWise == SpecRowWise /\ WF_vars(NextRowWise)

\* Construction and call of all four operators: any decay argument, the
\* tensors' shapes right or wrong, an index array of at most one member that
\* may disagree with the lengths.
\* ------------------------- gpuAtomicAdd(c10::Half*, c10::Half) by CAS
\* Lanes that call the half-width gpuAtomicAdd and the calls each makes.
MaxLanes == 2
MaxCalls == 2

\* Two neighbouring half-width accumulators param_mom[0] and param_mom[1]
\* lie in one 32-bit word: address_as_ui = address - (address & 2).  The
\* word is the pair <<low half, high half>>.
Word == <<mom[0], mom[1]>>
HalfBefore == <<3, 5>>

\* hsum.x = (size_t)address & 2 ? (old >> 16) : (old & 0xffff);
HalfOf(half, w) == IF half = 1 THEN w[2] ELSE w[1]

\* old = (size_t)address & 2 ? (old & 0xffff) | (hsum.x << 16)
\*                           : (old & 0xffff0000) | hsum.x;
WithHalf(half, w, h) == IF half = 1 THEN <<w[1], h>> ELSE <<h, w[2]>>

\* (a plain store: the word written whatever it holds)
atomicStore(cur, assumed, new) == [mem |-> new, ret |-> assumed]

\* atomicCAS(address_as_ui, assumed, old): the word becomes new when it
\* holds assumed; the value it held is returned.
atomicCAS(cur, assumed, new) ==
  [mem |-> IF cur = assumed THEN new ELSE cur, ret |-> cur]

\* (the value of the previous read kept for the next round)
NextOldStale(ret, old) == old

\* old = atomicCAS(...): the next round starts from the returned word.
NextOld(ret, old) == ret

\* unsigned int old = *address_as_ui;
HalfLoad(id) ==
  /\ op = "gpuAtomicAdd"
  /\ lanes[id].pc = "load"
  /\ lanes' = [lanes EXCEPT ![id].old = Word, ![id].pc = "cas"]
  /\ UNCHANGED <<inputs, param, mom, wgrad, hostpc, stream, offsets, kernel,
                 blocks, touched, ghost>>

\* One round of the do-while: assumed = old, the half is taken out of the
\* word, val is added, the word is put together again and atomicCAS tried;
\* while (assumed != old) decides between another round and the return.
HalfCAS(id) ==
  /\ op = "gpuAtomicAdd"
  /\ lanes[id].pc = "cas"
  /\ LET l == lanes[id]
         assumed == l.old
         hsum == HalfOf(l.half, assumed) + l.val
         r == atomicCAS(Word, assumed, WithHalf(l.half, assumed, hsum))
     IN /\ mom' = [k \in {0, 1} |-> r.mem[k + 1]]
        /\ lanes' = [lanes EXCEPT ![id] =
                       IF assumed # r.ret
                       THEN [l EXCEPT !.old = NextOld(r.ret, l.old)]
                       ELSE [l EXCEPT !.old = <<0, 0>>, !.left = l.left - 1,
                                      !.pc = IF l.left > 1 THEN "load"
                                             ELSE "done"]]
  /\ UNCHANGED <<inputs, param, wgrad, hostpc, stream, offsets, kernel,
                 blocks, touched, ghost>>

\* Lanes 0..(n - 1), lane k adding k + 1; each with its half of the word
\* and its number of calls.
InitAtomic ==
  \E n \in 1..MaxLanes :
    \E halves \in [0..(n - 1) -> {0, 1}], calls \in [0..(n - 1) -> 1..MaxCalls] :
      /\ op = "gpuAtomicAdd"
      /\ post = 1 /\ maxThreads = 1 /\ shape = <<>>
      /\ lengths = <<>> /\ indices = <<>> /\ grad = <<>> /\ weights = <<>>
      /\ hyper = <<>>
      /\ param = <<>>
      /\ mom = [k \in {0, 1} |-> HalfBefore[k + 1]]
      /\ wgrad = [alloc |-> FALSE, data |-> <<>>]
      /\ hostpc = "start" /\ stream = <<>> /\ offsets = <<>>
      /\ kernel = NoKernel /\ blocks = <<>>
      /\ lanes = [k \in 0..(n - 1) |->
                    [pc |-> "load", half |-> halves[k], val |-> k + 1,
                     calls |-> calls[k], left |-> calls[k], old |-> <<0, 0>>]]
      /\ touched = {}
      /\ ghost = [oob |-> FALSE, dup |-> FALSE, wdup |-> FALSE, wby |-> {}]

NextAtomic ==
  \/ \E id \in DOMAIN lanes : HalfLoad(id)
  \/ \E id \in DOMAIN lanes : HalfCAS(id)

SpecAtomic == InitAtomic /\ [][NextAtomic]_vars

\* The same calls on lanes the device keeps running.
FairAtomic == SpecAtomic /\ WF_vars(NextAtomic)

\* ----------------------------------------- launches over many widths
\* int warp_id = (threadIdx.y * blockDim.x + threadIdx.x) / 32;
warp_id(x, y) == (y * kernel.cfg.bx + x) \div 32

\* The default block size of caffe2 (caffe2/core/common_gpu.h).
CAFFE_CUDA_NUM_THREADS == 128

\* The number of lanes the kernel's cub::BlockReduce is instantiated for:
\* BlockReduce<float, NumThreads> in the weighted kernels,
\* BlockReduce<float, CAFFE_CUDA_NUM_THREADS> in the generic row-wise kernel.
ReduceWidth == IF IsWeighted(op) THEN NumThreads ELSE CAFFE_CUDA_NUM_THREADS

\* Embedding widths around the thresholds of the dispatch, and lane budgets
\* (maxThreadsPerBlock) of devices.
LaunchWidths == {16, 32, 33, 48, 64, 65, 96, 128, 129, 200, 256, 512, 1024}
LaunchBudgets == {64, 256, 1024}

\* One segment of one member for the row-wise and the weighted operators.
InitLaunches ==
  \E o \in Ops \ {"Sum"}, d \in LaunchWidths, mt \in LaunchBudgets :
    InitCall(o, <<d, mt>>, <<1>>, <<0>>,
             IF IsWeighted(o) THEN <<1>> ELSE <<>>,
             CHOOSE h \in Hypers({0}) : TRUE, GoodShape(o, d, 1))

\* The call up to the entry of the blocks into the kernel.
NextLaunches ==
  \/ RunOnDevice
  \/ StreamScan
  \/ StreamLaunch
  \/ \E b \in DOMAIN blocks : BlockEntry(b)

SpecLaunches == InitLaunches /\ [][NextLaunches]_vars

\* ------------------------------------------- all four kernels, every path
\* The devices that lead an operator's launch into each of its paths.
KernelDevices(o, l) ==
  IF o = "Sum" THEN SumDevices
  ELSE IF o = "RowWiseSum" THEN RowWiseDevices
  ELSE {WeightedDevice(l)}

\* Well-formed calls of each operator on rows of the table, with a weight
\* decay.
InitKernels ==
  \E o \in Ops, l \in LengthSeqs :
    \E dev \in KernelDevices(o, l), ix \in RowSeqs(SumSeq(l)),
       wh \in {x \in WeightedInputs(SumSeq(l)) : x[2].weight_decay = 1} :
      InitCall(o, dev, l, ix, IF IsWeighted(o) THEN wh[1] ELSE <<>>, wh[2],
               GoodShape(o, dev[1], Len(l)))

NextKernels ==
  \/ RunOnDevice
  \/ StreamScan
  \/ StreamLaunch
  \/ KernelComplete
  \/ \E b \in DOMAIN blocks : BlockEntry(b)
  \/ \E id \in DOMAIN lanes : SumRead(id)
  \/ \E id \in DOMAIN lanes : SumWriteMom(id)
  \/ \E id \in DOMAIN lanes : SumWriteParam(id)
  \/ \E id \in DOMAIN lanes : WSumRead(id)
  \/ \E id \in DOMAIN lanes : WSumWrite(id)
  \/ \E id \in DOMAIN lanes : RowSquares(id)
  \/ \E b \in DOMAIN blocks : RowSquaresReduce(b)
  \/ \E id \in DOMAIN lanes : RowMomRead(id)
  \/ \E id \in DOMAIN lanes : RowMomWrite(id)
  \/ \E b \in DOMAIN blocks : RowBarrier(b)
  \/ \E id \in DOMAIN lanes : RowUpdate(id)
  \/ \E id \in DOMAIN lanes : WarpSquares(id)
  \/ \E id \in DOMAIN lanes : WarpStoreAvg(id)
  \/ \E id \in DOMAIN lanes : WarpAtomicAdd(id)
  \/ \E id \in DOMAIN lanes : WarpUpdate(id)
  \/ \E id \in DOMAIN lanes : RowWUpdate(id)
  \/ \E b \in DOMAIN blocks : WGradReduce(b)
  \/ \E id \in DOMAIN lanes : WGradWrite(id)
  \/ \E b \in DOMAIN blocks : WBarrier(b)

SpecKernels == InitKernels /\ [][NextKernels]_vars

CallDevice(o) == IF o = "Sum" THEN <<1, 2>> ELSE <<2, 2>>

Shapes(o, d, s) ==
  [momRows : {NumRows, NumRows + 1}, lrSize : {1, 2}, lengthsNdim : {1, 2},
   gradDim0 : {s, s + 1}, gradCols : {d},
   weightsNdim : IF IsWeighted(o) THEN {1, 2} ELSE {1}]

InitCalls ==
  \E o \in Ops, l \in {x \in LengthSeqs : SumSeq(x) <= 2} :
    \E ix \in SeqsUpTo(0..(NumRows - 1), 1),
       sh \in Shapes(o, CallDevice(o)[1], Len(l)), dc \in DecayArgs :
      NewOperator(o, CallDevice(o), l, ix, <<1>>,
                  [(CHOOSE h \in Hypers({1}) : TRUE) EXCEPT !.decay = dc],
                  sh, "new")

NextCalls ==
  \/ Construct
  \/ RunOnDevice
  \/ StreamScan
  \/ StreamLaunch
  \/ KernelComplete
  \/ \E b \in DOMAIN blocks : BlockEntry(b)
  \/ \E id \in DOMAIN lanes : SumRead(id)
  \/ \E id \in DOMAIN lanes : SumWriteMom(id)
  \/ \E id \in DOMAIN lanes : SumWriteParam(id)
  \/ \E id \in DOMAIN lanes : WSumRead(id)
  \/ \E id \in DOMAIN lanes : WSumWrite(id)
  \/ \E id \in DOMAIN lanes : RowSquares(id)
  \/ \E b \in DOMAIN blocks : RowSquaresReduce(b)
  \/ \E id \in DOMAIN lanes : RowMomRead(id)
  \/ \E id \in DOMAIN lanes : RowMomWrite(id)
  \/ \E b \in DOMAIN blocks : RowBarrier(b)
  \/ \E id \in DOMAIN lanes : RowUpdate(id)
  \/ \E id \in DOMAIN lanes : RowWUpdate(id)
  \/ \E b \in DOMAIN blocks : WGradReduce(b)
  \/ \E id \in DOMAIN lanes : WGradWrite(id)
  \/ \E b \in DOMAIN blocks : WBarrier(b)

SpecCalls == InitCalls /\ [][NextCalls]_vars

\* ================================================================ claims
\* The tables before the call.
ParamBefore == Param0(post)
MomBefore == Mom0(op, post)

\* Position where segment g starts, from the lengths alone (g = S: the end).
SegStart(g) == SumSeq(SubSeq(lengths, 1, g))
SegLines(g) == SegStart(g)..(SegStart(g + 1) - 1)
Segs == 0..(S - 1)

DistinctIndices == \A j, k \in 1..M : j # k => indices[j] # indices[k]

KernelDone == kernel.status = "done"

\* The offset scan of this call has run.
ScanDone ==
  kernel.status # "none" /\ \A k \in 1..Len(stream) : stream[k].work # "scan"

\* C1: once the offset builder has run, offsets[i] is the sum of
\* lengths[0..i] for every segment i; so the offsets never decrease, each
\* differs from the one before (0 before the first) by its segment's length,
\* and the last one is the sum of all lengths.
C1_OffsetsAreInclusiveSums ==
  ScanDone =>
    /\ Len(offsets) = S
    /\ \A i \in 1..S :
         /\ offsets[i] = SumSeq(SubSeq(lengths, 1, i))
         /\ offsets[i] - (IF i = 1 THEN 0 ELSE offsets[i - 1]) = lengths[i]
         /\ i > 1 => offsets[i - 1] <= offsets[i]
    /\ offsets[S] = SumSeq(lengths)

C1_Witness == ScanDone /\ lengths = <<1, 1>> /\ offsets = <<1, 2>>

\* C3: with pairwise distinct indices, after the kernel every element e of
\* the row of every member of segment g holds: accumulator = old accumulator
\* + gi^2 and parameter = old parameter + LR * gi / (sqrt(NEW accumulator) +
\* epsilon), where gi = grad[g][e] + weight_decay * old parameter; on the
\* exact-block and on the strided path alike.
C3_ExactUpdateRule ==
  (KernelDone /\ DistinctIndices) =>
    \A g \in Segs : \A line \in SegLines(g) : \A e \in 0..(post - 1) :
      LET row == At(indices, line)
          p == ParamBefore[row][e]
          a == MomBefore[row][e]
          gi == grad[g][e] + weight_decay * p
      IN /\ mom[row][e] = a + gi * gi
         /\ param[row][e] = p + Quot(LR * gi, Sqrt(a + gi * gi) + epsilon)

\* One segment, one member, weight_decay = 0, accumulator > 0 before.
C3_Witness ==
  /\ KernelDone /\ lengths = <<1>> /\ weight_decay = 0
  /\ MomBefore[indices[1]][0] > 0
  /\ mom[indices[1]][0] = MomBefore[indices[1]][0] + grad[0][0] * grad[0][0]

\* C4: execution unit g works on exactly the positions [offsets[g-1],
\* offsets[g]) of the index array: the ranges of the units are the segments
\* of the lengths, pairwise disjoint and covering [0, M); a lane of unit g
\* is never at a position outside its segment, and when the kernel is done
\* the (unit, position, element) updates made are exactly the members of
\* each segment; with distinct indices the row indices[line] of each member
\* of segment g has moved by gradient row g and no other row has moved.
C4_SegmentMapping ==
  /\ \A b \in DOMAIN blocks :
       blocks[b].st = "running" =>
         /\ blocks[b].start = SegStart(b) /\ blocks[b].end = SegStart(b + 1)
         /\ \A c \in DOMAIN blocks :
              (c # b /\ blocks[c].st = "running") =>
                \/ blocks[b].end <= blocks[c].start
                \/ blocks[c].end <= blocks[b].start
  /\ \A id \in DOMAIN lanes :
       lanes[id].pc \in {"rd", "wm", "wp"} =>
         lanes[id].line \in SegLines(BlockOf(id))
  /\ \A t \in touched : t[2] \in SegLines(t[1])
  /\ KernelDone =>
       /\ touched = {<<g, line, e>> : g \in Segs, line \in 0..(M - 1),
                                      e \in 0..(post - 1)}
                      \cap {t \in Segs \X (0..(M - 1)) \X (0..(post - 1)) :
                              t[2] \in SegLines(t[1])}
       /\ UNION {SegLines(g) : g \in Segs} = 0..(M - 1)
       /\ DistinctIndices =>
            /\ \A g \in Segs : \A line \in SegLines(g) :
                 \A e \in 0..(post - 1) :
                   LET row == At(indices, line)
                       gi == grad[g][e] + weight_decay * ParamBefore[row][e]
                   IN mom[row][e] - MomBefore[row][e] = gi * gi
            /\ \A row \in 0..NumRows :
                 (\A k \in 1..M : indices[k] # row) =>
                   /\ mom[row] = MomBefore[row]
                   /\ param[row] = ParamBefore[row]

\* Two non-empty segments, all their members updated.
C4_Witness ==
  /\ KernelDone /\ lengths = <<1, 1>>
  /\ {<<0, 0, 0>>, <<1, 1, 0>>} \subseteq touched

\* C9 (as claimed): a member whose index is not below the row count of the
\* parameter table never has its row read or written; the kernel's
\* assertion stops it first.
C9_IndexBoundsFatal ==
  /\ ~ghost.oob
  /\ \A id \in DOMAIN lanes :
       lanes[id].pc \in {"wm", "wp"} => At(indices, lanes[id].line) < NumRows

\* -------------------------------------------------- claims about the call
Returned == hostpc \in {"ok", "error"}

NothingLaunched ==
  kernel.status = "none" /\ stream = <<>> /\ offsets = <<>> /\ blocks = <<>>

TablesUnchanged == param = ParamBefore /\ mom = MomBefore

\* The tables disagree: in total size for the exact operators, which is in
\* row count as both have rows of post elements, in row count for the
\* row-wise ones.
TablesDisagree == shape.momRows # NumRows

\* C7: a call of any of the four operators with no segment or only empty
\* segments and an empty index array (a learning rate of one element and,
\* for the exact operators, tables of equal size) returns success, leaves
\* both tables as they were, and for the weighted operators has allocated a
\* weight-gradient output of length zero.
C7_ZeroLengthBatchNoOp ==
  (/\ Returned
   /\ M = 0 /\ \A k \in 1..S : lengths[k] = 0
   /\ shape.lrSize = 1
   /\ IsRowWise(op) \/ ~TablesDisagree) =>
    /\ hostpc = "ok"
    /\ TablesUnchanged
    /\ IsWeighted(op) => wgrad.alloc /\ Len(wgrad.data) = 0

C7_Witness ==
  /\ hostpc = "ok" /\ M = 0 /\ lengths = <<0, 0>>
  /\ op = "RowWiseWeightedSum" /\ wgrad.alloc /\ TablesUnchanged

\* C8 (as claimed): with zero segments no kernel is launched, and no block
\* is ever launched for a segment of zero length.
C8_NoUnitForEmptySegment ==
  /\ S = 0 => NothingLaunched
  /\ \A b \in DOMAIN blocks : At(lengths, b) > 0

\* C8 (amended): with zero segments or an empty index array no kernel is
\* launched; a segment of zero length in a launched batch does get a block,
\* whose lanes leave the member loop at once: they never reach a read or a
\* write of a table and update nothing.
C8_EmptySegmentIdle ==
  /\ (S = 0 \/ M = 0) => NothingLaunched
  /\ \A id \in DOMAIN lanes :
       At(lengths, BlockOf(id)) = 0 => lanes[id].pc \in {"wait", "done"}
  /\ \A t \in touched : At(lengths, t[1]) > 0
  /\ \A b \in DOMAIN blocks :
       (At(lengths, b) = 0 /\ blocks[b].st = "running") =>
         blocks[b].start = blocks[b].end

\* A launched batch with an empty first segment: its block has run to the
\* end while the second segment's member was updated.
C8_Witness ==
  /\ KernelDone /\ lengths = <<0, 1>> /\ M = 1
  /\ blocks[0].st = "running" /\ touched # {}
  /\ \A id \in LanesOf(0) : lanes[id].pc = "done"

\* The mismatches the call checks before it looks at the index array.
EarlyMismatch == shape.lrSize # 1 \/ (~IsRowWise(op) /\ TablesDisagree)

ShapeMismatch ==
  \/ TablesDisagree
  \/ shape.lrSize # 1
  \/ shape.lengthsNdim # 1
  \/ S # shape.gradDim0

\* C10 (as claimed): every call with one of the shape mismatches, the calls
\* with an empty index array included, fails with an error and launches
\* nothing.
C10_ShapeMismatchFails ==
  (Returned /\ ShapeMismatch) =>
    hostpc = "error" /\ NothingLaunched /\ TablesUnchanged

\* C10 (amended): a call with one of the shape mismatches launches neither
\* the scan nor a kernel and leaves the tables unchanged; it fails with an
\* error when its index array is not empty; with an empty index array it
\* fails only for a learning rate not of length 1 or, in the exact
\* operators, tables of different size, and returns success otherwise.
C10_ShapeMismatchBeforeLaunch ==
  (Returned /\ ShapeMismatch) =>
    /\ NothingLaunched /\ TablesUnchanged
    /\ M > 0 => hostpc = "error"
    /\ M = 0 => (hostpc = "error" <=> EarlyMismatch)

\* A call with members whose gradient has one row too many.
C10_Witness ==
  /\ hostpc = "error" /\ M = 1
  /\ shape.gradDim0 # S /\ ~TablesDisagree
  /\ shape.lrSize = 1 /\ shape.lengthsNdim = 1 /\ shape.weightsNdim = 1

\* ------------------------------------------ claims about the other kernels
Elems == 0..(post - 1)

\* The sum of f[e] over the elements of a row.
RowSum(f) == SumElems(Elems, f)

\* The segment a position of the index array belongs to.
SegOf(line) == CHOOSE g \in Segs : line \in SegLines(g)

\* C5: in both weighted kernels, when the kernel is done the output element
\* of every member whose row appears once in the batch is the inner product,
\* over all elements, of the row as it was before the call and the
\* segment's gradient row; the member's weight and weight_decay do not
\* enter, nor does the number of lanes the elements are spread over.
C5_WeightGradInnerProduct ==
  (KernelDone /\ IsWeighted(op)) =>
    \A g \in Segs : \A line \in SegLines(g) :
      LET row == At(indices, line)
      IN (\A k \in 0..(M - 1) : k # line => At(indices, k) # row) =>
           wgrad.data[line + 1] =
             {RowSum([e \in Elems |-> ParamBefore[row][e] * grad[g][e]])}

\* A row of two elements on two lanes, weight 2, weight_decay 1.
C5_Witness ==
  /\ KernelDone /\ op = "RowWiseWeightedSum" /\ post = 2
  /\ lengths = <<1>> /\ weights = <<2>> /\ weight_decay = 1
  /\ wgrad.data[1] = {ParamBefore[indices[1]][0] * grad[0][0]
                        + ParamBefore[indices[1]][1] * grad[0][1]}
  /\ wgrad.data[1] # {0}

\* The row-wise rule applied to the members one after the other, from
\* position k on, to the tables p (parameters) and m (accumulators).
RECURSIVE RowWiseReference(_, _, _)
RowWiseReference(k, p, m) ==
  IF k >= M THEN [param |-> p, mom |-> m]
  ELSE LET g == SegOf(k)
           row == At(indices, k)
           x == [e \in Elems |-> grad[g][e] + weight_decay * p[row][e]]
           m2 == m[row] + Quot(RowSum([e \in Elems |-> x[e] * x[e]]), post)
           step == Quot(LR, Sqrt(m2) + epsilon)
       IN RowWiseReference(
            k + 1,
            [p EXCEPT ![row] = [e \in Elems |-> p[row][e] + x[e] * step]],
            [m EXCEPT ![row] = m2])

\* C2 (as claimed): with pairwise distinct indices, whatever the
\* interleaving of blocks and lanes, the tables the unweighted row-wise
\* kernel leaves are those of the sequential reference.
C2_OrderIndependent ==
  (KernelDone /\ op = "RowWiseSum" /\ DistinctIndices) =>
    LET ref == RowWiseReference(0, ParamBefore, MomBefore)
    IN param = ref.param /\ mom = ref.mom

\* C6 (as claimed): after the unweighted row-wise kernel on a single segment
\* of distinct rows, the accumulator of every row of the segment is its old
\* value plus the sum over all elements of effective_grad^2, divided by the
\* row length; on the warp path as on the block-reduce path.
C6_RowWiseAccumulator ==
  (KernelDone /\ op = "RowWiseSum" /\ S = 1 /\ DistinctIndices) =>
    \A line \in SegLines(0) :
      LET row == At(indices, line)
          x == [e \in Elems |->
                  grad[0][e] + weight_decay * ParamBefore[row][e]]
      IN mom[row] = MomBefore[row]
                      + Quot(RowSum([e \in Elems |-> x[e] * x[e]]), post)

\* --------------------------------------------- claims about construction
\* C11: for each of the four operators, an operator constructed with a
\* decay argument other than 1 is rejected by its constructor: it never gets
\* to a call, launches nothing and changes no table; with decay absent or 1
\* the constructor succeeds.
C11_DecayRejected ==
  LET decay == IF hyper.decay = <<>> THEN 1 ELSE hyper.decay[1]
  IN /\ decay # 1 =>
          /\ hostpc \in {"new", "rejected"}
          /\ NothingLaunched /\ TablesUnchanged /\ ~wgrad.alloc
     /\ decay = 1 => hostpc # "rejected"

C11_Witness ==
  /\ hostpc = "rejected" /\ hyper.decay = <<2>> /\ M = 1
  /\ shape = GoodShape(op, post, S)

\* ------------------------------------------------ claims about the races
\* One row as the only member of each of two segments, weight_decay = 0.
SharedRowCase ==
  /\ KernelDone /\ op = "Sum" /\ weight_decay = 0
  /\ lengths = <<1, 1>> /\ indices[1] = indices[2]

\* C12: when one row is the member of two segments, the read-modify-write
\* sequences of the two blocks of the exact kernel are not serialized: each
\* accumulator element ends as its old value plus one of the two squared
\* gradients or plus both, which of them depending on the interleaving;
\* the schedule that loses an update is C12_LostUpdate.
C12_RepeatedIndexOutcomes ==
  SharedRowCase =>
    \A e \in 0..(post - 1) :
      LET row == indices[1]
          a == MomBefore[row][e]
          sq0 == grad[0][e] * grad[0][e]
          sq1 == grad[1][e] * grad[1][e]
      IN mom[row][e] \in {a + sq0, a + sq1, a + sq0 + sq1}

\* The lost update: the accumulator holds the second segment's increment
\* only, which neither sequential order of the two members gives.
C12_LostUpdate ==
  /\ SharedRowCase
  /\ LET row == indices[1]
         a == MomBefore[row][0]
         sq0 == grad[0][0] * grad[0][0]
         sq1 == grad[1][0] * grad[1][0]
     IN /\ sq0 > 0 /\ sq1 > 0 /\ a > 0
        /\ mom[row][0] = a + sq1
        /\ mom[row][0] # a + sq0 + sq1

\* ------------------------------------------------- claims about progress
\* C13 (as claimed): once the kernel runs, every lane of every block gets
\* to the end of the kernel, whatever the segment lengths and the block
\* shape; no lane waits forever at a barrier.
C13_RunToCompletion ==
  (kernel.status = "running") ~>
    (KernelDone /\ \A id \in DOMAIN lanes : lanes[id].pc = "done")

\* ------------------------------------------------- claims about ordering
KernelStarted == kernel.status \in {"running", "done", "trap"}

\* C14: in every call that launches a kernel, the scan has left the stream,
\* with every offset at its final value, before the kernel starts; the
\* bounds a block has read are those of the finished offsets, never those of
\* an offset array still being written.
C14_ScanBeforeKernel ==
  /\ KernelStarted =>
       /\ ScanDone
       /\ \A i \in 1..S : offsets[i] = SumSeq(SubSeq(lengths, 1, i))
  /\ ~KernelStarted => blocks = <<>> /\ lanes = <<>>
  /\ \A b \in DOMAIN blocks :
       blocks[b].st = "running" =>
         /\ blocks[b].start = SegStart(b)
         /\ blocks[b].end = SegStart(b + 1)

\* A kernel whose second block has read bounds that differ from the
\* content of the offset buffer before the scan.
C14_Witness ==
  /\ KernelStarted /\ hostpc = "ok" /\ lengths = <<1, 0>> /\ M = 1
  /\ offsets = <<1, 1>>
  /\ blocks[1].st = "running" /\ blocks[1].start = 1 /\ blocks[1].end = 1

\* --------------------------------------- claims about the row-wise phases
\* Positions of a lane of a row-wise kernel before its accumulator write of
\* the current member (lanes that write nothing pass them too), after it,
\* and before its read of the accumulator for the step.
PreWrite == {"rd", "red2", "mr", "mw", "ws", "aa"}
PostWrite == {"bar1", "up", "red", "wg", "bar"}
PreRead == PreWrite \cup {"bar1", "up"}

\* Distance between two members a lane processes one after the other.
LineStride == IF kernel.cfg.path = "warp" THEN kernel.cfg.by ELSE 1

\* The round of the member loop a lane is in.
RoundOf(id) ==
  LET first == blocks[BlockOf(id)].start
                 + (IF kernel.cfg.path = "warp" THEN id[2] ELSE 0)
  IN (lanes[id].line - first) \div LineStride

\* The lanes that write accumulator increments: lane 0 of a 1-D block, the
\* leader of every warp on the exact-block path.
IncrementWriter(id) == kernel.cfg.path = "warp" \/ id[3] = 0

\* Lane id has written the increment of a member behind position m.
WroteBeyond(id, m) ==
  \/ lanes[id].pc \in PostWrite /\ lanes[id].line > m
  \/ lanes[id].pc \in PreWrite \cup {"done"} /\ lanes[id].line - LineStride > m

\* A lane reads the accumulator for its step only when no lane of its block
\* is still before its accumulator write of the same or an earlier round.
StepAfterIncrements ==
  \A id \in DOMAIN lanes :
    (IsRowWise(op) /\ lanes[id].pc = "up") =>
      \A id2 \in LanesOf(BlockOf(id)) :
        lanes[id2].pc \in PreWrite => RoundOf(id2) > RoundOf(id)

\* No increment of a later member is written while a lane of the block has
\* still to read the accumulator for its current member.
NextIncrementAfterReads ==
  \A id \in DOMAIN lanes : \A id2 \in LanesOf(BlockOf(id)) :
    (IsRowWise(op) /\ lanes[id].pc \in PreRead /\ IncrementWriter(id2)) =>
      ~WroteBeyond(id2, lanes[id].line)

\* C15 (as claimed): in the row-wise kernels, both strategies of the
\* unweighted one included, the accumulator is read for the step of member
\* m only after the block's increments for m are written, and the increment
\* of the next member is not written before every lane has read the
\* accumulator for m.
C15_PhaseBarrierAllPaths ==
  (kernel.status = "running") => StepAfterIncrements /\ NextIncrementAfterReads

\* C15 (amended): in every row-wise kernel the accumulator is read for the
\* step only after the block's increments of that round are written; on the
\* 1-D block paths (generic unweighted, weighted) no increment of a later
\* member is written before every lane has read the accumulator for the
\* current one.  The exact-block path, whose lane rows work on blockDim.y
\* members at a time, gives no such order between members.
C15_PhaseBarrier ==
  (kernel.status = "running") =>
    /\ StepAfterIncrements
    /\ kernel.cfg.path = "strided" => NextIncrementAfterReads

\* Generic path, two lanes: lane 1 has still to read the accumulator for
\* member 0 while lane 0, done with member 0, waits in the reduction of
\* member 1.
C15_Witness ==
  /\ kernel.status = "running" /\ op = "RowWiseSum"
  /\ kernel.cfg.path = "strided" /\ lengths = <<2>>
  /\ lanes[<<0, 0, 1>>].pc = "up" /\ lanes[<<0, 0, 1>>].line = 0
  /\ lanes[<<0, 0, 0>>].pc = "red2" /\ lanes[<<0, 0, 0>>].line = 1

\* The row energy member line adds to its row's accumulator when
\* weight_decay is 0: the mean of the squared gradient row of its segment,
\* in the weighted kernel times the square of the member's weight.
RowEnergy(line) ==
  LET g == SegOf(line)
      avg == Quot(RowSum([e \in Elems |-> grad[g][e] * grad[g][e]]), post)
      w == IF IsWeighted(op) THEN At(weights, line - SegStart(g)) ELSE 1
  IN avg * w * w

\* The sum of RowEnergy over the members at positions below n that
\* reference row.
RECURSIVE EnergyOf(_, _)
EnergyOf(row, n) ==
  IF n = 0 THEN 0
  ELSE EnergyOf(row, n - 1)
         + (IF At(indices, n - 1) = row THEN RowEnergy(n - 1) ELSE 0)

\* C16 (as claimed): in the row-wise kernels no increment is lost when
\* segments share a row: for every interleaving each accumulator ends as
\* its initial value plus the row energies of all members that reference
\* the row (weight_decay = 0, so that the energies do not depend on the
\* parameters read).
C16_NoLostIncrement ==
  (KernelDone /\ IsRowWise(op) /\ weight_decay = 0) =>
    \A row \in 0..(NumRows - 1) :
      mom[row] = MomBefore[row] + EnergyOf(row, M)

\* ------------------------------------ claims about the weight gradients
\* Positions of a lane inside its work on a member, up to the block-wide
\* sum of w_grad.
MemberWork == {"rd", "wm", "red2", "mr", "mw", "bar1", "up", "red"}

\* C17: in both weighted kernels every weights_grad_out[line] is written
\* once and only once in the launch, by lane 0 of the block of line's
\* segment, when every other lane of the block has entered the block-wide
\* sum of that member and waits at the barrier behind it; no lane works on
\* a member before the elements of all earlier members of its segment are
\* written, and when the kernel is done every position below sum(lengths)
\* has been written.
C17_WeightGradCommit ==
  IsWeighted(op) =>
    /\ ~ghost.wdup
    /\ \A w \in ghost.wby :
         /\ w[1][3] = 0 /\ w[1][2] = 0
         /\ w[2] \in SegLines(BlockOf(w[1]))
         /\ wgrad.data[w[2] + 1] # {}
    /\ \A k \in 1..Len(wgrad.data) :
         wgrad.data[k] # {} => \E w \in ghost.wby : w[2] = k - 1
    /\ \A id \in DOMAIN lanes :
         /\ lanes[id].pc = "wg" =>
              /\ id[3] = 0
              /\ \A id2 \in LanesOf(BlockOf(id)) \ {id} :
                   lanes[id2].pc = "bar" /\ lanes[id2].line = lanes[id].line
         /\ lanes[id].pc \in MemberWork \cup {"wg"} =>
              /\ wgrad.data[lanes[id].line + 1] = {}
              /\ \A m \in SegLines(BlockOf(id)) :
                   m < lanes[id].line => wgrad.data[m + 1] # {}
    /\ KernelDone =>
         /\ {w[2] : w \in ghost.wby} = 0..(SumSeq(lengths) - 1)
         /\ Cardinality(ghost.wby) = SumSeq(lengths)

\* Two lanes, a segment of two members: lane 0 is about to write the
\* second member's element, the first is written, lane 1 waits.
C17_Witness ==
  /\ op = "WeightedSum" /\ post = 2 /\ lengths = <<2>>
  /\ kernel.status = "running" /\ <<0, 0, 1>> \in DOMAIN lanes
  /\ lanes[<<0, 0, 0>>].pc = "wg" /\ lanes[<<0, 0, 0>>].line = 1
  /\ lanes[<<0, 0, 1>>].pc = "bar"
  /\ wgrad.data[1] # {} /\ wgrad.data[2] = {}

\* weights[line - start_g] for the position line of the batch.
SegWeight(line) == At(weights, line - SegStart(SegOf(line)))

\* The longest segment of the batch.
MaxLength == CHOOSE n \in 0..M : /\ \A k \in 1..S : lengths[k] <= n
                                 /\ n = 0 \/ \E k \in 1..S : lengths[k] = n

\* C18: in both weighted kernels the weight of the member at position line
\* of segment g is weights[line - start_g]: a lane at work on a member reads
\* the weights at an index in [0, max(lengths)), and when the kernel is done
\* on pairwise distinct rows, the accumulator of every member's row has
\* grown by the square of the gradient scaled with weights[line - start_g]
\* (row-wise: by the row's mean square times that weight squared), while
\* the weight gradient of every position line of the batch is written at
\* line itself.
C18_SegmentRelativeWeights ==
  IsWeighted(op) =>
    /\ \A id \in DOMAIN lanes :
         lanes[id].pc \in MemberWork \cup {"wg", "bar"} =>
           lanes[id].line - blocks[BlockOf(id)].start \in 0..(MaxLength - 1)
    /\ (KernelDone /\ DistinctIndices) =>
         \A line \in 0..(M - 1) :
           LET g == SegOf(line)
               row == At(indices, line)
               w == SegWeight(line)
           IN /\ wgrad.data[line + 1] # {}
              /\ IF IsRowWise(op)
                 THEN mom[row] = MomBefore[row] +
                        RowAvg(RowSum([e \in Elems |->
                                 EffectiveGrad(grad[g][e], weight_decay,
                                               ParamBefore[row][e]) *
                                 EffectiveGrad(grad[g][e], weight_decay,
                                               ParamBefore[row][e])]),
                               post) * w * w
                 ELSE \A e \in Elems :
                        mom[row][e] = MomBefore[row][e] +
                          OutGrad(w, grad[g][e], weight_decay,
                                  ParamBefore[row][e]) *
                          OutGrad(w, grad[g][e], weight_decay,
                                  ParamBefore[row][e])

\* Two segments of one member each on different rows: both members take
\* weights[0], and weights[1] differs from it.
C18_Witness ==
  /\ IsWeighted(op) /\ KernelDone /\ DistinctIndices
  /\ lengths = <<1, 1>> /\ weights[1] # weights[2]
  /\ SegWeight(1) = weights[1]
  /\ wgrad.data[2] # {}

\* ------------------------------------- claims about the Sum kernel's work
\* The (segment, member, element) triples of the batch.
AllPairs == {<<g, line, e>> : g \in Segs, line \in 0..(M - 1), e \in Elems}
SegmentPairs == {t \in AllPairs : t[2] \in SegLines(t[1])}

\* C19: the Sum kernel is launched as the exact-block kernel exactly when
\* D <= maxThreads, on D lane columns and min(maxThreads / D,
\* SEGREDUCE_MINBLOCKS) >= 1 lane rows, and else as the strided kernel on
\* maxThreads lanes; on either path no (member, element) pair is processed
\* twice, every processed pair and every pair a lane is at work on lies in
\* the lane's own segment and in [0, D), the lane at work on a pair is the
\* one the loops assign it to, and when the kernel is done the processed
\* pairs are exactly the pairs of all segments.
C19_ExactWorkCoverage ==
  (op = "Sum" /\ kernel.status # "none") =>
    /\ IF post <= maxThreads
       THEN /\ kernel.cfg.path = "exact" /\ kernel.cfg.bx = post
            /\ kernel.cfg.by = Min(maxThreads \div post, SEGREDUCE_MINBLOCKS)
            /\ kernel.cfg.by >= 1
       ELSE /\ kernel.cfg.path = "strided" /\ kernel.cfg.bx = maxThreads
            /\ kernel.cfg.by = 1
    /\ ~ghost.dup
    /\ touched \subseteq SegmentPairs
    /\ \A id \in DOMAIN lanes :
         lanes[id].pc \in {"rd", "wm", "wp"} =>
           /\ <<BlockOf(id), lanes[id].line, lanes[id].i>> \in SegmentPairs
           /\ <<BlockOf(id), lanes[id].line, lanes[id].i>> \notin touched
           /\ lanes[id].i % kernel.cfg.bx = id[3]
           /\ (lanes[id].line - SegStart(BlockOf(id))) % kernel.cfg.by = id[2]
    /\ KernelDone => touched = SegmentPairs

\* The exact-block kernel with two lane rows has finished a segment of two
\* members.
C19_Witness ==
  /\ op = "Sum" /\ KernelDone /\ kernel.cfg.path = "exact"
  /\ kernel.cfg.by = 2 /\ lengths = <<2>>
  /\ touched = {<<0, 0, 0>>, <<0, 1, 0>>}

\* ------------------------------------------ claims about the call's frame
\* The rows the index array names.
ReferencedRows == {indices[k] : k \in 1..M}

\* Positions of a lane from which its next step stores into a table or
\* into the weight gradients.
WritePositions == {"wm", "wp", "mw", "aa", "up", "wg"}

\* What a call leaves alone, in every state of every kernel.
FrameOfTables ==
  /\ \A row \in DOMAIN param :
       row \notin ReferencedRows =>
         param[row] = ParamBefore[row] /\ mom[row] = MomBefore[row]
  /\ \A row \in DOMAIN param :
       (param[row] # ParamBefore[row] \/ mom[row] # MomBefore[row]) =>
         \E g \in Segs : \E line \in SegLines(g) : At(indices, line) = row
  /\ \A id \in DOMAIN lanes :
       lanes[id].pc \in WritePositions => SegLines(BlockOf(id)) # {}
  /\ \A t \in touched : SegLines(t[1]) # {}
  /\ \A w \in ghost.wby : SegLines(BlockOf(w[1])) # {}

\* C20: in every kernel and under every schedule, a row of the parameter
\* or accumulator table differs from its value before the call only if it
\* is the value of a member of a non-empty segment, rows the index array
\* does not name keep their values, no lane of a block with an empty segment
\* is ever at a store or has stored, and no step changes the operator's
\* inputs (indices, lengths, gradients, weights, learning rate).
C20_FrameOfUpdate == [](FrameOfTables) /\ [][inputs' = inputs]_vars

\* A finished kernel with an empty segment beside a segment of one member
\* whose row has changed while another row kept its value.
C20_Witness ==
  /\ KernelDone /\ \E g \in Segs : SegLines(g) = {}
  /\ \E row \in ReferencedRows : param[row] # ParamBefore[row]
  /\ \E row \in 0..(NumRows - 1) :
       row \notin ReferencedRows /\ param[row] = ParamBefore[row]

SerialReference(g, row, e) ==
  LET first == SegStart(g)
      last == SegStart(g + 1) - 1
      ref[k \in (first - 1)..last] ==
        IF k = first - 1 THEN <<ParamBefore[row][e], MomBefore[row][e]>>
        ELSE IF At(indices, k) # row THEN ref[k - 1]
        ELSE LET p == ref[k - 1][1]
                 gi == IF IsWeighted(op)
                       THEN OutGrad(At(weights, k - first), grad[g][e],
                                    weight_decay, p)
                       ELSE EffectiveGrad(grad[g][e], weight_decay, p)
                 mom_new == MomNew(gi, ref[k - 1][2])
             IN <<ParamNew(LR, gi, mom_new, epsilon, p), mom_new>>
  IN ref[last]

\* The rows of segment g that no other segment names.
RowsOnlyIn(g) ==
  {At(indices, line) : line \in SegLines(g)} \
    {At(indices, line) : line \in UNION {SegLines(h) : h \in Segs \ {g}}}

RepeatedIn(g, row) ==
  \E j, k \in SegLines(g) :
    j # k /\ At(indices, j) = row /\ At(indices, k) = row

\* The kernels that walk the members of a segment one after the other: the
\* Sum kernel when D exceeds the lane budget, and the weighted Sum kernel.
SerialMembers ==
  \/ op = "Sum" /\ post > maxThreads
  \/ op = "WeightedSum"

\* C22: in the strided Sum kernel and in the weighted Sum kernel, when the
\* kernel is done every row named by one segment only, repeated in it or
\* not, holds in each element the parameter and accumulator values of the
\* serial reference, under every schedule.
C22_SerialWithinSegment ==
  (KernelDone /\ SerialMembers) =>
    \A g \in Segs : \A row \in RowsOnlyIn(g) : \A e \in Elems :
      <<param[row][e], mom[row][e]>> = SerialReference(g, row, e)

\* The strided Sum kernel has finished a segment that names row 0 twice.
C22_Witness ==
  /\ KernelDone /\ op = "Sum" /\ kernel.cfg.path = "strided"
  /\ lengths = <<2>> /\ indices = <<0, 0>>
  /\ RepeatedIn(0, 0)
  /\ mom[0][1] # MomBefore[0][1]

\* The exact-block Sum kernel has finished a segment that names a row twice
\* and left it with other values than the serial reference.
C22_ExactBlockUnordered ==
  /\ KernelDone /\ op = "Sum" /\ kernel.cfg.path = "exact"
  /\ \E g \in Segs : \E row \in RowsOnlyIn(g) :
       /\ RepeatedIn(g, row)
       /\ \E e \in Elems :
            <<param[row][e], mom[row][e]>> # SerialReference(g, row, e)

\* ------------------------------------ claims about the shared scratch cell
\* The step of a warp leader that adds to the accumulator.
LeaderAdds(id) == lanes[id].pc = "aa" /\ lanes'[id].pc = "bar1"

\* C23 (as claimed): on the exact-block path of the row-wise kernel, under
\* every interleaving of the warps of a block, what a warp leader adds to
\* accumulator[index] is its own warp's reduce_result / D (the value it
\* stored in row_sum_squares_avg), never the value another leader stored.
C23_LeaderAddsOwnAverage ==
  [][\A id \in DOMAIN lanes :
       LeaderAdds(id) =>
         mom' = [mom EXCEPT ![At(indices, lanes[id].line)] =
                   @ + lanes[id].r2]]_vars

\* ----------------------------------- claims about the half-width atomic add
\* What the calls finished so far have added to a half of the word.
AddedTo(half) ==
  LET ids == {id \in DOMAIN lanes : lanes[id].half = half}
  IN SumOver(ids, [id \in ids |->
                     lanes[id].val * (lanes[id].calls - lanes[id].left)])

AllReturned == \A id \in DOMAIN lanes : lanes[id].pc = "done"

\* C24: whatever the lanes, their halves and the interleaving of their
\* rounds, each half of the word holds its initial value plus what the
\* calls that have returned added to that half: every call takes effect
\* once, none is lost, and a call on one half leaves the other half alone;
\* when all calls have returned each half holds its initial value plus all
\* values added to it.
C24_HalfAtomicAdd ==
  op = "gpuAtomicAdd" =>
    \A half \in {0, 1} : mom[half] = HalfBefore[half + 1] + AddedTo(half)

\* Two lanes have finished two calls each, one on either half of the word.
C24_Witness ==
  /\ op = "gpuAtomicAdd" /\ AllReturned
  /\ DOMAIN lanes = {0, 1}
  /\ lanes[0].half = 0 /\ lanes[1].half = 1
  /\ lanes[0].calls = 2 /\ lanes[1].calls = 2
  /\ mom[0] = HalfBefore[1] + 2 /\ mom[1] = HalfBefore[2] + 4

\* C27: on lanes that keep being run, every call of the half-width
\* gpuAtomicAdd returns: all lanes come to the end of their calls.
C27_CallsReturn == (op = "gpuAtomicAdd") => <>AllReturned

\* A lane whose round failed (the word it read is no longer the word) while
\* another lane has returned from a call.
C27_Witness ==
  /\ op = "gpuAtomicAdd"
  /\ \E id \in DOMAIN lanes :
       /\ lanes[id].pc = "cas" /\ lanes[id].old # Word
       /\ \E other \in DOMAIN lanes \ {id} : lanes[other].left < lanes[other].calls

\* --------------------------------------- claims about the launch shapes
\* C25: the row-wise operator takes its exact-block path exactly when
\* D <= maxThreads / 2 and D is a multiple of 32, with the block (D,
\* min(maxThreads / D, SEGREDUCE_MINBLOCKS)); the block then has at most
\* maxThreads lanes, every lane's warp_id is below 32, the first and the
\* last lane of each lane's warp lie in the lane's own lane row (so a warp
\* holds elements of one member only), and the warps are those of the
\* model's lanes <<block, lane row, warp of the row>>.
C25_WarpLaunchShape ==
  (op = "RowWiseSum" /\ kernel.status # "none") =>
    /\ kernel.cfg.path = "warp" <=>
         (post <= maxThreads \div 2 /\ post % 32 = 0)
    /\ kernel.cfg.path = "warp" =>
         /\ kernel.cfg.bx = post
         /\ kernel.cfg.by = Min(maxThreads \div post, SEGREDUCE_MINBLOCKS)
         /\ kernel.cfg.by >= 1
         /\ kernel.cfg.bx * kernel.cfg.by <= maxThreads
         /\ \A y \in 0..(kernel.cfg.by - 1), x \in 0..(kernel.cfg.bx - 1) :
              /\ warp_id(x, y) < 32
              /\ (32 * warp_id(x, y)) \div kernel.cfg.bx = y
              /\ (32 * warp_id(x, y) + 31) \div kernel.cfg.bx = y
         /\ \A id \in DOMAIN lanes :
              /\ id[2] < kernel.cfg.by /\ 32 * id[3] + 31 < kernel.cfg.bx
              /\ warp_id(32 * id[3], id[2]) =
                   id[2] * (kernel.cfg.bx \div 32) + id[3]

\* D = 64 on a device of 1024 lanes: 16 lane rows of two warps, the last
\* warp has warp_id 31.
C25_Witness ==
  /\ op = "RowWiseSum" /\ post = 64 /\ maxThreads = 1024
  /\ kernel.status = "running" /\ kernel.cfg.path = "warp"
  /\ kernel.cfg.by = 16
  /\ <<0, 15, 1>> \in DOMAIN lanes /\ warp_id(63, 15) = 31

C26_WeightedLanesAreReduceWidth ==
  (kernel.status # "none" /\ IsWeighted(op)) =>
    /\ kernel.cfg.bx * kernel.cfg.by = ReduceWidth
    /\ kernel.cfg.bx = (IF post > 128 THEN 512 ELSE IF post > 64 THEN 128
                        ELSE IF post > 32 THEN 64 ELSE 32)

====
